---------------------------- MODULE Spec2Model ----------------------------
(***************************************************************************)
(* 2-7 lowball hand evaluation of dgunzy/poker-fork: the slow classifier   *)
(* evalSlow27, the entry points Eval27 / Eval27Fast, and the lazily built  *)
(* lookup table deuce7RootTable guarded by the sync.Once deuce7TableInit.  *)
(*                                                                         *)
(* A Card is rank*4 + suit with rank 0 = Ace ... 12 = King.  A uint16 bit  *)
(* mask is modelled as the set of its bit positions: x |= 1<<r is          *)
(* x \cup {r}, x &^= y is x \ y, and the value 31 is the set 0..4.         *)
(***************************************************************************)
EXTENDS Integers, Sequences, FiniteSets, TLC

VARIABLES
    numCards,          \* number of cards the builder's loops range over
    deuce7RootTable,   \* the lookup table; the empty function is the nil slice
    onceState,         \* deuce7TableInit: "new", "running" or "done"
    builder,           \* the thread executing the Do body, 0 when none
    bpc,               \* the builder's place in the body
    cards,             \* the builder's loop variable `cards [5]Card`
    builds,            \* how many times the Do body has been entered
    held,              \* per bucket: every value it has held since make
    synced,            \* per thread: it has come back from deuce7TableInit.Do
    crashed,           \* a panic has ended the process (nothing recovers it)
    pc,                \* per thread: place in its current call
    fn,                \* per thread: the exported function it called
    hand,              \* per thread: the cards of the argument hand, ascending,
                       \* once the call has read it
    ret,               \* per thread: the value returned
    eHand,             \* single-caller evaluation: the hand given to Eval27
    eAcc,              \* ... evalSlow27's accumulators for it
    eEv,               \* ... evalSlow27's result
    eScore             \* ... Eval27's result

vars == <<numCards, deuce7RootTable, onceState, builder, bpc, cards, builds,
          held, synced, crashed, pc, fn, hand, ret, eHand, eAcc, eEv, eScore>>

tableVars == <<numCards, deuce7RootTable, onceState, builder, bpc, cards,
               builds, held, synced, crashed, pc, fn, hand, ret>>

evalVars == <<eHand, eAcc, eEv, eScore>>

---------------------------------------------------------------------------
(* Bounds of the model *)

\* The table length and hash modulus (7462 in the source), scaled down.  With
\* 5 buckets the hash depends on the order of the cards (53 is 3 modulo 5),
\* and a deck of 7 cards fills every bucket, not all with the same score.
TableSize == 5

\* The builder's loops range over Card(0) .. Card(numCards-1), numCards
\* drawn from MinCards..MaxCards (52 in the source).
MinCards == 6

MaxCards == 7

\* The single-caller evaluation draws hands from the cards whose rank is one
\* of the LowRanks lowest (Ace, Two, ...) or HighRanks highest (..., King)
\* and whose suit is one of the first EvalSuits suits.
LowRanks == 6

HighRanks == 4

EvalSuits == 2

\* Slices that are not hands of five cards are drawn from the cards of the
\* SliceRanks lowest ranks in those suits.
SliceRanks == 4

Threads == {1, 2}

\* The orders in which a caller may hold the five cards of its hand, as
\* arrangements of the ascending order: ascending, rotated by one, the first
\* two exchanged.
Orders == {<<1, 2, 3, 4, 5>>, <<2, 3, 4, 5, 1>>, <<2, 1, 3, 4, 5>>}

---------------------------------------------------------------------------
(* Cards *)

\* (int(c>>2) & 15) + 1 : Ace is 1, King is 13
CardRank(c) == ((c \div 4) % 16) + 1

\* c & 3
CardSuit(c) == c % 4

Max(S) == CHOOSE x \in S : \A y \in S : y <= x

\* all cards of the slice share the suit of the first
isFlush(c) == \A i \in 1..Len(c) : CardSuit(c[i]) = CardSuit(c[1])

\* poptop: the rank of the highest set bit (bit 0 is rank 2, bit 12 is rank
\* 14) and the mask without it
poptop(x) ==
    IF x = {} THEN [r |-> 0, rest |-> {}]
    ELSE [r |-> Max(x) + 2, rest |-> x \ {Max(x)}]

\* the ranks n successive calls of poptop take from x, highest first: the
\* p-th call finds the bit with p-1 bits above it
PopN(x, n) ==
    [p \in 1..n |->
        LET rest == {b \in x : Cardinality({a \in x : a > b}) >= p - 1}
        IN poptop(rest).r]

\* evalScore5(t, a, b, c, d, e): the category above five 4-bit tie-break ranks
evalScore5(t, a, b, c, d, e) ==
    [err |-> FALSE,
     rank |-> t * 1048576 + a * 65536 + b * 4096 + c * 256 + d * 16 + e]

\* eval{} returned with an error
evalError == [err |-> TRUE, rank |-> 0]

\* a caller's ev and err before evalSlow27 has returned to it
NoReturn == [err |-> FALSE, rank |-> 0]

\* evalInfo.slowRankToPacked: an order-preserving injective compaction of the
\* raw rank (every tie-break digit is at most 14), defined for every rank
\* evalSlow27 returns and never 0.  The int16 values of the source are not
\* given; only the order and the identity of scores is used.
slowRankToPacked(rank) ==
    1 + (rank \div 1048576) * 759375
      + ((rank \div 65536) % 16) * 50625
      + ((rank \div 4096) % 16) * 3375
      + ((rank \div 256) % 16) * 225
      + ((rank \div 16) % 16) * 15
      + (rank % 16)

---------------------------------------------------------------------------
(* evalSlow27 *)

ZeroAcc ==
    [ranks    |-> [r \in 0..12 |-> 0],
     dupes    |-> [k \in 0..5 |-> 0],
     str8s    |-> [r \in 0..12 |-> {}],
     str8top  |-> 0,
     rankBits |-> [k \in 0..5 |-> {}]]

\* rankBits[ranks[rawr]] |= 1 << rawr; ranks[rawr]++;
\* dupes[ranks[rawr]]++; dupes[ranks[rawr]-1]--
CountRank(st, rawr) ==
    LET n == st.ranks[rawr] IN
    [st EXCEPT !.rankBits[n] = @ \cup {rawr},
               !.ranks[rawr] = n + 1,
               !.dupes = [@ EXCEPT ![n + 1] = @ + 1, ![n] = @ - 1]]

\* a window test that lets the window of A-2-3-4-5 through
Str8WindowWithWheel(idx) == idx >= 4

\* the window a straight must reach to be recorded
Str8Window(idx) == idx >= 5

\* one iteration of the straight detection loop, for offset i
Str8Step(st, cr, i) ==
    LET idx == IF cr # 14 THEN ((cr - 1) + i) % 13 ELSE (13 + i) % 13
        s1  == [st EXCEPT !.str8s[idx] = @ \cup {i}]
    IN IF s1.str8s[idx] = 0..4 /\ Str8Window(idx)
       THEN [s1 EXCEPT !.str8top = ((idx + 12) % 13) + 1]
       ELSE s1

\* for i := 0; i < 5; i++.  Here and below a loop is unrolled into one
\* singleton set per iteration, holding the accumulators after it, so that
\* the iterations are evaluated one after the other.
Str8Loop(st, cr) ==
    LET S0 == {Str8Step(st, cr, 0)}
        S1 == {Str8Step(s, cr, 1) : s \in S0}
        S2 == {Str8Step(s, cr, 2) : s \in S1}
        S3 == {Str8Step(s, cr, 3) : s \in S2}
        S4 == {Str8Step(s, cr, 4) : s \in S3}
    IN CHOOSE s \in S4 : TRUE

\* the body of the first pass for one card
FirstPassCard(st, ci) ==
    LET cr   == IF CardRank(ci) = 1 THEN 14 ELSE CardRank(ci)
        rawr == (cr + 11) % 13
    IN CHOOSE r \in {Str8Loop(s, cr) : s \in {CountRank(st, rawr)}} : TRUE

\* the first pass over the five cards
FirstPass(c) ==
    LET S1 == {FirstPassCard(ZeroAcc, c[1])}
        S2 == {FirstPassCard(a, c[2]) : a \in S1}
        S3 == {FirstPassCard(a, c[3]) : a \in S2}
        S4 == {FirstPassCard(a, c[4]) : a \in S3}
        S5 == {FirstPassCard(a, c[5]) : a \in S4}
    IN CHOOSE a \in S5 : TRUE

\* the slot a card is counted in when the hand is re-ranked
AceRawr(cr) == IF cr = 1 THEN 12 ELSE cr - 1

\* for j := 0; j < len(c); j++ of the second pass
Recount(st, c) ==
    LET S1 == {CountRank(st, AceRawr(CardRank(c[1])))}
        S2 == {CountRank(a, AceRawr(CardRank(c[2]))) : a \in S1}
        S3 == {CountRank(a, AceRawr(CardRank(c[3]))) : a \in S2}
        S4 == {CountRank(a, AceRawr(CardRank(c[4]))) : a \in S3}
        S5 == {CountRank(a, AceRawr(CardRank(c[5]))) : a \in S4}
    IN CHOOSE a \in S5 : TRUE

\* the second pass: with an Ace in the hand the rank counts are cleared and
\* every card is counted again
SecondPass(st, c) ==
    IF \E j \in 1..Len(c) : CardRank(c[j]) = 1
    THEN Recount([st EXCEPT !.ranks = ZeroAcc.ranks,
                            !.dupes = ZeroAcc.dupes,
                            !.rankBits = ZeroAcc.rankBits], c)
    ELSE st

\* rankBits[k] &^= rankBits[k+1] for k = 0..4, in this order
MaskBits(st) ==
    [st EXCEPT !.rankBits =
        [k \in 0..5 |-> IF k < 5 THEN st.rankBits[k] \ st.rankBits[k + 1]
                        ELSE st.rankBits[k]]]

\* the accumulators when the category tests begin
Accumulate(c) ==
    LET P1 == {FirstPass(c)}
        P2 == {SecondPass(a, c) : a \in P1}
        P3 == {MaskBits(a) : a \in P2}
    IN CHOOSE a \in P3 : TRUE

\* the category tests, top down (replace = true, text = false)
Classify(st, c) ==
    LET flush   == isFlush(c)
        str8top == st.str8top
        dupes   == st.dupes
        rb      == st.rankBits
    IN
    IF ~flush /\ str8top = 0 /\ dupes[1] = Len(c) THEN
        LET k == PopN(rb[0], 5) IN evalScore5(0, k[1], k[2], k[3], k[4], k[5])
    ELSE IF dupes[2] = 1 /\ dupes[3] = 0 THEN
        LET p == PopN(rb[1], 1)
            k == PopN(rb[0], 3)
        IN evalScore5(1, p[1], k[1], k[2], k[3], 0)
    ELSE IF dupes[2] = 2 THEN
        LET p == PopN(rb[1], 2)
            k == PopN(rb[0], 1)
        IN evalScore5(2, p[1], p[2], k[1], 0, 0)
    ELSE IF dupes[3] = 1 /\ dupes[2] = 0 THEN
        LET k == PopN(rb[0], 2)
            t == PopN(rb[2], 1)
        IN evalScore5(3, t[1], k[1], k[2], 0, 0)
    ELSE IF str8top # 0 /\ ~flush THEN
        evalScore5(4, ((str8top + 11) % 13) + 2, 0, 0, 0, 0)
    ELSE IF flush /\ str8top = 0 THEN
        LET k == PopN(rb[0], 5) IN evalScore5(5, k[1], k[2], k[3], k[4], k[5])
    ELSE IF dupes[2] = 1 /\ dupes[3] = 1 THEN
        LET t == PopN(rb[2], 1)
            p == PopN(rb[1], 1)
        IN evalScore5(6, t[1], p[1], 0, 0, 0)
    ELSE IF dupes[4] = 1 THEN
        LET q == PopN(rb[3], 1)
            k == PopN(rb[0], 1)
        IN evalScore5(7, q[1], k[1], 0, 0, 0)
    ELSE IF str8top # 0 /\ flush THEN
        evalScore5(8, ((str8top + 11) % 13) + 2, 0, 0, 0, 0)
    ELSE IF dupes[5] = 1 THEN
        LET q == PopN(rb[4], 1) IN evalScore5(9, q[1], 0, 0, 0, 0)
    ELSE evalError

\* the category tests that hold of the accumulators, by category
MatchingTests(st, c) ==
    LET flush   == isFlush(c)
        str8top == st.str8top
        dupes   == st.dupes
    IN {k \in 0..9 :
          \/ k = 0 /\ ~flush /\ str8top = 0 /\ dupes[1] = Len(c)
          \/ k = 1 /\ dupes[2] = 1 /\ dupes[3] = 0
          \/ k = 2 /\ dupes[2] = 2
          \/ k = 3 /\ dupes[3] = 1 /\ dupes[2] = 0
          \/ k = 4 /\ str8top # 0 /\ ~flush
          \/ k = 5 /\ flush /\ str8top = 0
          \/ k = 6 /\ dupes[2] = 1 /\ dupes[3] = 1
          \/ k = 7 /\ dupes[4] = 1
          \/ k = 8 /\ str8top # 0 /\ flush
          \/ k = 9 /\ dupes[5] = 1}

\* an evalSlow27 without the test of len(c): it takes the first five cards
\* of the slice, and Card(0) where the slice has none
evalSlow27Unchecked(c) ==
    LET P(i) == IF i <= Len(c) THEN c[i] ELSE 0
        p    == <<P(1), P(2), P(3), P(4), P(5)>>
    IN CHOOSE ev \in {Classify(st, p) : st \in {Accumulate(p)}} : TRUE

evalSlow27(c) ==
    IF Len(c) # 5 THEN evalError
    ELSE CHOOSE ev \in {Classify(st, c) : st \in {Accumulate(c)}} : TRUE

\* the slow path of Eval27: 0 on an error, else the packed rank
SlowScore(h) ==
    LET ev == evalSlow27(h) IN
    IF ev.err THEN 0 ELSE slowRankToPacked(ev.rank)

---------------------------------------------------------------------------
(* Single-caller evaluation: Eval27 before any table exists *)

\* MakeCard(s, r) = Card(r-1)*4 + Card(s)
MakeCard(s, r) == (r - 1) * 4 + s

EvalRanks == {r \in 1..13 : r <= LowRanks \/ r > 13 - HighRanks}

EvalDeck == {MakeCard(s, r) : s \in 0..(EvalSuits - 1), r \in EvalRanks}

NilTable == [i \in {} |-> 0]

\* deuce7RootTable == nil
IsNil(tbl) == DOMAIN tbl = {}

InitTable ==
    /\ numCards \in MinCards..MaxCards
    /\ deuce7RootTable = NilTable
    /\ onceState = "new"
    /\ builder = 0
    /\ bpc = "none"
    /\ cards = <<>>
    /\ builds = 0
    /\ held = [i \in 0..(TableSize - 1) |-> {}]
    /\ synced = [t \in Threads |-> FALSE]
    /\ crashed = FALSE
    /\ pc = [t \in Threads |-> "idle"]
    /\ fn = [t \in Threads |-> "none"]
    /\ hand = [t \in Threads |-> <<>>]
    /\ ret = [t \in Threads |-> 0]

\* the single caller is not used
NoEval ==
    /\ eHand = <<>>
    /\ eAcc = ZeroAcc
    /\ eEv = NoReturn
    /\ eScore = -1

SliceDeck == {MakeCard(s, r) : s \in 0..(EvalSuits - 1), r \in 1..SliceRanks}

\* the cards of S in ascending order
Ascending(S) ==
    [i \in 1..Cardinality(S) |->
        CHOOSE x \in S : Cardinality({y \in S : y < x}) = i - 1]

\* the slices of distinct cards that are not hands: fewer or more than five
\* cards
OddSlices == {Ascending(S) : S \in {T \in SUBSET SliceDeck : Cardinality(T) # 5}}

\* a caller holding a hand of the evaluation deck, or a slice that is not a
\* hand, nothing called yet
InitEval ==
    /\ \/ \E a \in EvalDeck : \E b \in {x \in EvalDeck : x > a} :
          \E c \in {x \in EvalDeck : x > b} : \E d \in {x \in EvalDeck : x > c} :
          \E e \in {x \in EvalDeck : x > d} : eHand = <<a, b, c, d, e>>
       \/ eHand \in OddSlices
    /\ eAcc = ZeroAcc
    /\ eEv = NoReturn
    /\ eScore = -1

\* evalSlow27(c, true, false) called on a slice that is not a hand of five
\* cards: it returns before it touches an accumulator
EvalSlow27Sized ==
    /\ eEv = NoReturn
    /\ Len(eHand) # 5
    /\ eEv' = evalSlow27(eHand)
    /\ UNCHANGED <<eHand, eAcc, eScore, tableVars>>

\* Eval27(hand) with deuce7RootTable == nil: the fall-back to evalSlow27
Eval27Slow ==
    /\ eScore = -1
    /\ Len(eHand) = 5
    /\ IsNil(deuce7RootTable)
    /\ eAcc' = Accumulate(eHand)
    /\ eEv' = IF Len(eHand) # 5 THEN evalError ELSE Classify(eAcc', eHand)
    /\ eScore' = IF eEv'.err THEN 0 ELSE slowRankToPacked(eEv'.rank)
    /\ UNCHANGED <<eHand, tableVars>>

NextEval == Eval27Slow \/ EvalSlow27Sized

\* no table, no thread at work, the single caller holding its hand
InitSlow == InitTable /\ numCards = MinCards /\ InitEval

SpecEval == InitSlow /\ [][NextEval]_vars

---------------------------------------------------------------------------
(* The lookup table: SortCards, perfectHash, initDeuce7Table, Eval27Fast *)

\* the less function of SortCards: higher rank first with the Ace as 14,
\* then higher suit first
SortLess(a, b) ==
    LET ri == IF CardRank(a) = 1 THEN 14 ELSE CardRank(a)
        rj == IF CardRank(b) = 1 THEN 14 ELSE CardRank(b)
    IN IF ri # rj THEN ri > rj ELSE CardSuit(a) > CardSuit(b)

\* a slice left in the order it was passed in
KeepOrder(c) == c

\* sort.Slice over distinct cards: each card goes behind the cards less than it
SortCards(c) ==
    LET S == {c[i] : i \in 1..Len(c)} IN
    [p \in 1..Len(c) |->
        CHOOSE x \in S : Cardinality({y \in S : SortLess(y, x)}) = p - 1]

\* pow(base, exp) for the exponents 0..4 the hash uses
pow(base, exp) ==
    CASE exp = 0 -> 1
      [] exp = 1 -> base
      [] exp = 2 -> base * base
      [] exp = 3 -> base * base * base
      [] exp = 4 -> base * base * base * base

\* (rank*4 + suit) * uint32(pow(53, i)) for the card at index i (from 0)
HashTerm(c, i) ==
    (((c[i + 1] \div 4) % 16) * 4 + (c[i + 1] % 4)) * pow(53, i)

\* val % 7462 of the sum of the five terms.  Each term is at most 63 * 53^4,
\* the sum stays below 2^31: the uint32 never wraps.
perfectHash(c) ==
    (HashTerm(c, 0) + HashTerm(c, 1) + HashTerm(c, 2) + HashTerm(c, 3)
        + HashTerm(c, 4)) % TableSize

\* the combination the nested loops reach after c, <<>> after the last one
NextComb(c, n) ==
    IF c[5] + 1 < n THEN [c EXCEPT ![5] = @ + 1]
    ELSE IF c[4] + 2 < n THEN <<c[1], c[2], c[3], c[4] + 1, c[4] + 2>>
    ELSE IF c[3] + 3 < n THEN <<c[1], c[2], c[3] + 1, c[3] + 2, c[3] + 3>>
    ELSE IF c[2] + 4 < n THEN <<c[1], c[2] + 1, c[2] + 2, c[2] + 3, c[2] + 4>>
    ELSE IF c[1] + 5 < n THEN <<c[1] + 1, c[1] + 2, c[1] + 3, c[1] + 4, c[1] + 5>>
    ELSE <<>>

\* the first combination, <<>> when the deck has fewer than 5 cards
FirstComb(n) == IF n >= 5 THEN <<0, 1, 2, 3, 4>> ELSE <<>>

\* the verification loop finds an entry still -1
HasUnfilled(tbl) == \E i \in DOMAIN tbl : tbl[i] = -1

\* where a thread goes on when initDeuce7Table returns
AfterInit(t) == IF fn[t] = "initDeuce7Table" THEN "ret" ELSE "fread"

\* The argument of a call is five distinct cards of the deck, held in one of
\* the Orders.  Nothing depends on it before the call first reads it, so it
\* is drawn at that step; hand[t] keeps its cards.

\* the hand h with its cards arranged in the order o
Permute(h, o) == <<h[o[1]], h[o[2]], h[o[3]], h[o[4]], h[o[5]]>>

\* the combinations of five cards of the largest deck, ascending
DeckHands ==
    UNION {UNION {UNION {UNION {
        {<<a, b, c, d, e>> : e \in (d + 1)..(MaxCards - 1)}
        : d \in (c + 1)..(MaxCards - 1)} : c \in (b + 1)..(MaxCards - 1)}
        : b \in (a + 1)..(MaxCards - 1)} : a \in 0..(MaxCards - 1)}

\* every hand a caller may pass
ArgHands == {Permute(h, o) : h \in DeckHands, o \in Orders}

\* SortCards, perfectHash and evalSlow27 are pure; what they yield for the
\* hands of the deck is computed once and then looked up.

\* the slow-path score of every argument hand
SlowScores == <<>> @@ [h \in ArgHands |-> SlowScore(h)]

\* the bucket Eval27Fast reads for every argument hand
Buckets == <<>> @@ [h \in ArgHands |-> perfectHash(SortCards(h))]

\* a caller enters Eval27Fast(hand)
CallEval27Fast(t) ==
    /\ ~crashed /\ pc[t] = "idle"
    /\ fn' = [fn EXCEPT ![t] = "Eval27Fast"]
    /\ pc' = [pc EXCEPT ![t] = "fcheck"]
    /\ UNCHANGED <<numCards, deuce7RootTable, onceState, builder, bpc, cards,
                   builds, held, synced, crashed, hand, ret, evalVars>>

\* a caller enters Eval27(hand)
CallEval27(t) ==
    /\ ~crashed /\ pc[t] = "idle"
    /\ fn' = [fn EXCEPT ![t] = "Eval27"]
    /\ pc' = [pc EXCEPT ![t] = "echeck"]
    /\ UNCHANGED <<numCards, deuce7RootTable, onceState, builder, bpc, cards,
                   builds, held, synced, crashed, hand, ret, evalVars>>

\* a caller enters initDeuce7Table()
CallInit(t) ==
    /\ ~crashed /\ pc[t] = "idle"
    /\ fn' = [fn EXCEPT ![t] = "initDeuce7Table"]
    /\ pc' = [pc EXCEPT ![t] = "once"]
    /\ UNCHANGED <<numCards, deuce7RootTable, onceState, builder, bpc, cards,
                   builds, held, synced, crashed, hand, ret, evalVars>>

\* what an unsynchronised read of the variable deuce7RootTable may find:
\* a thread that has come back from Do sees the slice, any other thread
\* reads it in a race with the builder's assignment
SeesTable(t, sees) ==
    IF IsNil(deuce7RootTable) THEN sees = FALSE
    ELSE IF synced[t] \/ builder = t THEN sees = TRUE
    ELSE sees \in BOOLEAN

\* Eval27: if deuce7RootTable != nil { return Eval27Fast(hand) }, else the
\* slow evaluation
Eval27Check(t) ==
    /\ ~crashed /\ pc[t] = "echeck"
    /\ \E sees \in BOOLEAN :
         /\ SeesTable(t, sees)
         /\ IF sees
            THEN /\ pc' = [pc EXCEPT ![t] = "fcheck"]
                 /\ UNCHANGED <<hand, ret>>
            ELSE /\ pc' = [pc EXCEPT ![t] = "ret"]
                 /\ \E a \in 0..(numCards - 1) : \E b \in (a + 1)..(numCards - 1) :
                    \E c \in (b + 1)..(numCards - 1) :
                    \E d \in (c + 1)..(numCards - 1) :
                    \E e \in (d + 1)..(numCards - 1) : \E o \in Orders :
                       LET h == Permute(<<a, b, c, d, e>>, o) IN
                       /\ hand' = [hand EXCEPT ![t] = <<a, b, c, d, e>>]
                       /\ ret' = [ret EXCEPT ![t] = SlowScores[h]]
    /\ UNCHANGED <<numCards, deuce7RootTable, onceState, builder, bpc, cards,
                   builds, held, synced, crashed, fn, evalVars>>

\* Eval27Fast: if deuce7RootTable == nil { initDeuce7Table() }
FastCheck(t) ==
    /\ ~crashed /\ pc[t] = "fcheck"
    /\ \E sees \in BOOLEAN :
         /\ SeesTable(t, sees)
         /\ pc' = [pc EXCEPT ![t] = IF sees THEN "fread" ELSE "once"]
    /\ UNCHANGED <<numCards, deuce7RootTable, onceState, builder, bpc, cards,
                   builds, held, synced, crashed, fn, hand, ret, evalVars>>

\* a Do that only checks that no body is running
OnceEnterAgain(t) ==
    /\ ~crashed /\ pc[t] = "once"
    /\ onceState # "running"
    /\ onceState' = "running"
    /\ builder' = t
    /\ bpc' = "alloc"
    /\ builds' = builds + 1
    /\ pc' = [pc EXCEPT ![t] = "build"]
    /\ UNCHANGED <<numCards, deuce7RootTable, cards, held, synced, crashed,
                   fn, hand, ret, evalVars>>

\* deuce7TableInit.Do finds the body not yet started: this thread runs it
OnceEnter(t) ==
    /\ ~crashed /\ pc[t] = "once"
    /\ onceState = "new"
    /\ onceState' = "running"
    /\ builder' = t
    /\ bpc' = "alloc"
    /\ builds' = builds + 1
    /\ pc' = [pc EXCEPT ![t] = "build"]
    /\ UNCHANGED <<numCards, deuce7RootTable, cards, held, synced, crashed,
                   fn, hand, ret, evalVars>>

\* deuce7TableInit.Do finds the body done and returns; while the body runs
\* the caller is blocked on the mutex of the Once
OnceSkip(t) ==
    /\ ~crashed /\ pc[t] = "once"
    /\ onceState = "done"
    /\ synced' = [synced EXCEPT ![t] = TRUE]
    /\ pc' = [pc EXCEPT ![t] = AfterInit(t)]
    /\ UNCHANGED <<numCards, deuce7RootTable, onceState, builder, bpc, cards,
                   builds, held, crashed, fn, hand, ret, evalVars>>

\* deuce7RootTable = make([]int16, 7462)
BuildAlloc(t) ==
    /\ ~crashed /\ builder = t /\ bpc = "alloc"
    /\ deuce7RootTable' = [i \in 0..(TableSize - 1) |-> 0]
    /\ held' = [i \in 0..(TableSize - 1) |-> {0}]
    /\ bpc' = "sentinel"
    /\ UNCHANGED <<numCards, onceState, builder, cards, builds, synced,
                   crashed, pc, fn, hand, ret, evalVars>>

\* for i := range deuce7RootTable { deuce7RootTable[i] = -1 }
BuildSentinel(t) ==
    /\ ~crashed /\ builder = t /\ bpc = "sentinel"
    /\ deuce7RootTable' = [i \in DOMAIN deuce7RootTable |-> -1]
    /\ held' = [i \in DOMAIN held |-> held[i] \cup {-1}]
    /\ cards' = FirstComb(numCards)
    /\ bpc' = IF FirstComb(numCards) = <<>> THEN "verify" ELSE "loop"
    /\ UNCHANGED <<numCards, onceState, builder, builds, synced, crashed,
                   pc, fn, hand, ret, evalVars>>

\* the value the loop body stores for the hand, 0 when a check panics
BuildValue(cardSlice) ==
    LET ev == evalSlow27(cardSlice) IN
    IF ev.err THEN 0 ELSE slowRankToPacked(ev.rank)

\* what the loop body computes for each combination: the bucket and the
\* value to store
LoopBody ==
    <<>> @@ [c \in DeckHands |->
        LET cardSlice == SortCards(c) IN
        [idx |-> perfectHash(cardSlice), slowRank |-> BuildValue(cardSlice)]]

\* one iteration of the innermost loop: sort, evaluate, hash, check, store
BuildHand(t) ==
    /\ ~crashed /\ builder = t /\ bpc = "loop"
    /\ \E body \in {LoopBody[cards]} :
       LET idx      == body.idx
           slowRank == body.slowRank
       IN IF idx < 0 \/ idx >= TableSize \/ slowRank = 0
          THEN /\ crashed' = TRUE
               /\ onceState' = "done"
               /\ UNCHANGED <<deuce7RootTable, held, cards, bpc>>
          ELSE /\ deuce7RootTable' = [deuce7RootTable EXCEPT ![idx] = slowRank]
               /\ held' = [held EXCEPT ![idx] = @ \cup {slowRank}]
               /\ cards' = NextComb(cards, numCards)
               /\ bpc' = IF cards' = <<>> THEN "verify" ELSE "loop"
               /\ UNCHANGED <<crashed, onceState>>
    /\ UNCHANGED <<numCards, builder, builds, synced, pc, fn, hand, ret,
                   evalVars>>

\* a body that ends without the verification loop
BuildVerifySkipped(t) ==
    /\ ~crashed /\ builder = t /\ bpc = "verify"
    /\ onceState' = "done"
    /\ builder' = 0
    /\ bpc' = "none"
    /\ synced' = [synced EXCEPT ![t] = TRUE]
    /\ pc' = [pc EXCEPT ![t] = AfterInit(t)]
    /\ UNCHANGED <<numCards, deuce7RootTable, cards, builds, held, crashed,
                   fn, hand, ret, evalVars>>

\* the verification loop: a panic on an entry still -1, else the body ends,
\* the Once is done and initDeuce7Table returns to the builder's caller
BuildVerify(t) ==
    /\ ~crashed /\ builder = t /\ bpc = "verify"
    /\ onceState' = "done"
    /\ IF HasUnfilled(deuce7RootTable)
       THEN /\ crashed' = TRUE
            /\ UNCHANGED <<builder, bpc, synced, pc>>
       ELSE /\ builder' = 0
            /\ bpc' = "none"
            /\ synced' = [synced EXCEPT ![t] = TRUE]
            /\ pc' = [pc EXCEPT ![t] = AfterInit(t)]
            /\ UNCHANGED crashed
    /\ UNCHANGED <<numCards, deuce7RootTable, cards, builds, held, fn, hand,
                   ret, evalVars>>

\* what the read deuce7RootTable[idx] may return: the entry itself to a
\* thread that has come back from Do, and to any other thread, which reads in
\* a race with the builder, any value the entry has held
ReadValues(t, idx) ==
    IF synced[t] THEN {deuce7RootTable[idx]} ELSE held[idx]

\* Eval27Fast: sort a copy, return deuce7RootTable[perfectHash(sortedHand)]
FastRead(t) ==
    /\ ~crashed /\ pc[t] = "fread"
    /\ \E a \in 0..(numCards - 1) : \E b \in (a + 1)..(numCards - 1) :
       \E c \in (b + 1)..(numCards - 1) : \E d \in (c + 1)..(numCards - 1) :
       \E e \in (d + 1)..(numCards - 1) : \E o \in Orders :
          LET h == Permute(<<a, b, c, d, e>>, o) IN
          /\ hand' = [hand EXCEPT ![t] = <<a, b, c, d, e>>]
          /\ \E v \in ReadValues(t, Buckets[h]) :
                ret' = [ret EXCEPT ![t] = v]
    /\ pc' = [pc EXCEPT ![t] = "ret"]
    /\ UNCHANGED <<numCards, deuce7RootTable, onceState, builder, bpc, cards,
                   builds, held, synced, crashed, fn, evalVars>>

\* the call returns to its caller
Return(t) ==
    /\ ~crashed /\ pc[t] = "ret"
    /\ pc' = [pc EXCEPT ![t] = "idle"]
    /\ fn' = [fn EXCEPT ![t] = "none"]
    /\ hand' = [hand EXCEPT ![t] = <<>>]
    /\ ret' = [ret EXCEPT ![t] = 0]
    /\ UNCHANGED <<numCards, deuce7RootTable, onceState, builder, bpc, cards,
                   builds, held, synced, crashed, evalVars>>

Init == InitTable /\ NoEval

Next ==
    \E t \in Threads :
        \/ CallEval27Fast(t)
        \/ CallEval27(t)
        \/ CallInit(t)
        \/ Eval27Check(t)
        \/ FastCheck(t)
        \/ OnceEnter(t)
        \/ OnceSkip(t)
        \/ BuildAlloc(t)
        \/ BuildSentinel(t)
        \/ BuildHand(t)
        \/ BuildVerify(t)
        \/ FastRead(t)
        \/ Return(t)

Spec == Init /\ [][Next]_vars

---------------------------------------------------------------------------
(* The reference 2-7 ranking the scores are compared with *)

\* rank of a card with Two lowest and Ace highest
RefRank(c) == IF CardRank(c) = 1 THEN 14 ELSE CardRank(c)

RefRankSet(h) == {RefRank(h[i]) : i \in 1..5}

RefCount(h, r) == Cardinality({i \in 1..5 : RefRank(h[i]) = r})

RefIsFlush(h) == \A i \in 1..5 : CardSuit(h[i]) = CardSuit(h[1])

\* five consecutive ranks, the Ace above the King only
RefIsStraight(h) ==
    /\ Cardinality(RefRankSet(h)) = 5
    /\ \A r \in RefRankSet(h) : r + 4 >= Max(RefRankSet(h))

\* an Ace, a Two, a Three, a Four and a Five
IsWheel(h) == RefRankSet(h) = {14, 2, 3, 4, 5}

\* no-pair 0, pair 1, two pair 2, trips 3, straight 4, flush 5, full house 6,
\* quads 7, straight flush 8
RefCategory(h) ==
    LET n == Cardinality(RefRankSet(h))
        m == Max({RefCount(h, r) : r \in RefRankSet(h)})
    IN CASE n = 5 /\ RefIsStraight(h) /\ RefIsFlush(h) -> 8
         [] n = 5 /\ RefIsStraight(h) /\ ~RefIsFlush(h) -> 4
         [] n = 5 /\ ~RefIsStraight(h) /\ RefIsFlush(h) -> 5
         [] n = 5 /\ ~RefIsStraight(h) /\ ~RefIsFlush(h) -> 0
         [] n = 4 -> 1
         [] n = 3 /\ m = 2 -> 2
         [] n = 3 /\ m = 3 -> 3
         [] n = 2 /\ m = 3 -> 6
         [] n = 2 /\ m = 4 -> 7

\* the ranks of the hand, most significant first: ranks held more often come
\* first, higher ranks before lower; RefPlace counts the ranks ahead of r
RefPlace(h, r) ==
    Cardinality({q \in RefRankSet(h) :
        RefCount(h, q) * 16 + q > RefCount(h, r) * 16 + r})

RefDigit == <<65536, 4096, 256, 16, 1>>

\* the five tie-break ranks as one base-16 number: every rank of the hand,
\* counted once, at the digit of its place
RefTieBreak(h) ==
    LET T(i) == IF \E j \in 1..(i - 1) : RefRank(h[j]) = RefRank(h[i])
                THEN 0
                ELSE RefRank(h[i]) * RefDigit[RefPlace(h, RefRank(h[i])) + 1]
    IN T(1) + T(2) + T(3) + T(4) + T(5)

\* category, then tie-break ranks: the reference order of two hands is the
\* order of their keys
RefKey(h) == RefCategory(h) * 1048576 + RefTieBreak(h)

\* the most significant tie-break rank: the highest card of a no-pair hand,
\* the rank of the pair of a one-pair hand
RefTop(h) == CHOOSE r \in RefRankSet(h) : RefPlace(h, r) = 0

\* one hand for every multiset of five ranks (Ace = 1 ... King = 13, at most
\* four of a rank), in ascending card order
RefRankSeqs ==
    UNION {UNION {UNION {UNION {
        {<<a, b, c, d, e>> : e \in {x \in d..13 : x > a}}
        : d \in c..13} : c \in b..13} : b \in a..13} : a \in 1..13}

\* the cards of such a hand: equal ranks take the suits 0, 1, 2, 3; of five
\* different ranks the last card takes suit 1 unless the hand is to be a flush
RefHand(q, oneSuit) ==
    [i \in 1..5 |->
        MakeCard(Cardinality({j \in 1..(i - 1) : q[j] = q[i]})
                   + (IF i = 5 /\ ~oneSuit /\ Cardinality({q[j] : j \in 1..5}) = 5
                      THEN 1 ELSE 0),
                 q[i])]

RefHands ==
    {RefHand(q, FALSE) : q \in RefRankSeqs}
        \cup {RefHand(q, TRUE) :
                q \in {x \in RefRankSeqs : Cardinality({x[j] : j \in 1..5}) = 5}}

\* every reference hand with its reference key and its slow-path score
RefTable ==
    {[h |-> g, key |-> RefKey(g), s |-> SlowScore(g)] : g \in RefHands}

\* the single caller's Eval27 has returned
Evaluated == eScore # -1

\* category and first tie-break rank of an evalSlow27 result
EvCategory(ev) == ev.rank \div 1048576

EvTop(ev) == (ev.rank \div 65536) % 16

---------------------------------------------------------------------------
(* Properties of the slow path, under SpecEval *)

\* C2: the slow-path scores of any two hands are equal exactly when the hands
\* have the same category and the same tie-break ranks, and are otherwise
\* ordered as the reference 2-7 ranking orders the hands.
C2_ScoresFollowReference ==
    Evaluated =>
        \A g \in RefTable :
            /\ (eScore = g.s) <=> (RefKey(eHand) = g.key)
            /\ (RefKey(eHand) < g.key) => (eScore < g.s)
            /\ (RefKey(eHand) > g.key) => (eScore > g.s)

\* C3: a straight, a flush or a hand with a pair scores strictly worse than
\* every hand of five different ranks that is neither a flush nor a straight
\* (the wheel A-2-3-4-5 not being a straight).
C3_LowballInversion ==
    Evaluated =>
        \A g \in RefTable :
            /\ (RefCategory(eHand) # 0 /\ g.key \div 1048576 = 0)
                   => (eScore > g.s)
            /\ (RefCategory(eHand) = 0 /\ g.key \div 1048576 # 0)
                   => (eScore < g.s)

\* C4: evalSlow27 never classifies A-2-3-4-5 as a straight or a straight
\* flush; in mixed suits it is a no-pair hand with the Ace as its highest card
\* and scores better than every real straight, in one suit it is a plain
\* flush and scores worse than the same ranks in mixed suits.
C4_WheelNotStraight ==
    (Evaluated /\ IsWheel(eHand)) =>
        /\ ~eEv.err
        /\ EvCategory(eEv) \notin {4, 8}
        /\ ~RefIsFlush(eHand) =>
              /\ EvCategory(eEv) = 0
              /\ EvTop(eEv) = 14
              /\ \A g \in RefTable : RefIsStraight(g.h) => eScore < g.s
        /\ RefIsFlush(eHand) =>
              /\ EvCategory(eEv) = 5
              /\ \A g \in RefTable :
                    (IsWheel(g.h) /\ ~RefIsFlush(g.h)) => eScore > g.s

\* a wheel in mixed suits has been evaluated
C4_Witness ==
    /\ Evaluated
    /\ IsWheel(eHand)
    /\ ~RefIsFlush(eHand)
    /\ EvCategory(eEv) = 0

\* C5: the Ace is the highest rank: a no-pair hand with an Ace scores strictly
\* worse than every no-pair hand without one, and a pair of Aces scores
\* strictly worse than every pair of a lower rank.
C5_AceAlwaysHigh ==
    Evaluated =>
        \A g \in RefTable :
            \A cat \in {0, 1} :
                (RefCategory(eHand) = cat /\ g.key \div 1048576 = cat) =>
                    /\ (RefTop(eHand) = 14 /\ RefTop(g.h) < 14)
                          => (eScore > g.s)
                    /\ (RefTop(eHand) < 14 /\ RefTop(g.h) = 14)
                          => (eScore < g.s)

---------------------------------------------------------------------------
(* Properties of the lookup table and its construction, under Spec *)

\* some bucket has held two different scores
Collided == \E i \in DOMAIN held : Cardinality(held[i] \ {0, -1}) > 1

\* C1: once the table has been built, Eval27Fast(hand) returns exactly the
\* slow-path score of the hand.
C1_FastEqualsSlow ==
    \A t \in Threads :
        (pc[t] = "ret" /\ fn[t] = "Eval27Fast" /\ synced[t])
            => ret[t] = SlowScore(hand[t])

\* C6: every caller waits for the construction to finish before it reads the
\* table: a read of a bucket happens only when the Once is done and no
\* builder is at work.
C6_ReadersWait ==
    [][\A t \in Threads :
          (pc[t] = "fread" /\ pc'[t] = "ret")
              => (onceState = "done" /\ builder = 0)]_vars

\* C7: the construction body is executed exactly once: it is entered at most
\* once, a thread is back from Do only after it has been entered, and the
\* Once is fresh exactly while it has not been entered.
C7_BuiltOnce ==
    /\ builds <= 1
    /\ (onceState = "new") <=> (builds = 0)
    /\ \A t \in Threads : synced[t] => builds = 1

\* both threads have come back from Do
C7_Witness == builds = 1 /\ \A t \in Threads : synced[t]

\* C8: perfectHash sends no two hands with different scores to one bucket: no
\* write of the construction loop replaces a score by a different score.
C8_NoOverwrite ==
    [][bpc = "loop" =>
          \A i \in DOMAIN deuce7RootTable :
              deuce7RootTable[i] = -1
                  \/ deuce7RootTable'[i] = deuce7RootTable[i]]_vars

\* C9: when initDeuce7Table has returned normally no entry of the table is
\* still -1; with an entry left at -1 the construction panics instead.
C9_TableComplete ==
    (onceState = "done" /\ ~crashed) =>
        /\ ~IsNil(deuce7RootTable)
        /\ \A i \in DOMAIN deuce7RootTable : deuce7RootTable[i] # -1

\* the construction has returned normally
C9_Witness ==
    /\ onceState = "done"
    /\ ~crashed
    /\ builder = 0
    /\ DOMAIN deuce7RootTable = 0..(TableSize - 1)

\* C10: when a hand hashes to a bucket that already holds a different score
\* the construction aborts, and no call returns a value read from the table
\* afterwards.
C10_CollisionAborts ==
    Collided =>
        /\ crashed
        /\ \A t \in Threads : ~(pc[t] = "ret" /\ fn[t] = "Eval27Fast")

\* a call has returned, and came back from Do before it read the table
FastAnswer(t) == pc[t] = "ret" /\ fn[t] = "Eval27Fast" /\ synced[t]

\* a call of Eval27 has returned and the table is still nil: the slow path
\* answered it
SlowAnswer(t) == pc[t] = "ret" /\ fn[t] = "Eval27" /\ IsNil(deuce7RootTable)

\* C11: the order of the cards does not matter: two calls given the same five
\* cards, each in any order, return the same score, both when evalSlow27
\* answers them and when the built table answers them through Eval27Fast.
C11_OrderIndependent ==
    \A t \in Threads : \A u \in Threads :
        hand[t] = hand[u] =>
            /\ (SlowAnswer(t) /\ SlowAnswer(u)) => ret[t] = ret[u]
            /\ (FastAnswer(t) /\ FastAnswer(u)) => ret[t] = ret[u]

\* two calls of Eval27Fast on the same five cards have returned from the
\* built table
C11_Witness ==
    /\ FastAnswer(1)
    /\ FastAnswer(2)
    /\ hand[1] = hand[2]
    /\ onceState = "done"
    /\ ~crashed

\* C12: Eval27 returns the same score for a hand at every point of a sequence
\* of calls: the score the slow path gives it while there is no table is also
\* what Eval27 returns for it once the table is built.  (Stated for the calls
\* that do not race with the construction.)
C12_Eval27Stable ==
    \A t \in Threads :
        (pc[t] = "ret" /\ fn[t] = "Eval27"
            /\ (synced[t] \/ IsNil(deuce7RootTable)))
                => ret[t] = SlowScores[hand[t]]

\* initDeuce7Table has completed: some thread has come back from Do
Completed == \E t \in Threads : synced[t]

\* C13: once initDeuce7Table has completed no step of any call changes an
\* entry of deuce7RootTable or replaces the table.
C13_TableFrozen ==
    [][Completed => deuce7RootTable' = deuce7RootTable]_vars

\* after the construction a further initDeuce7Table and a further Eval27 have
\* both returned
C13_Witness ==
    /\ Completed
    /\ ~crashed
    /\ pc[1] = "ret" /\ fn[1] = "initDeuce7Table"
    /\ pc[2] = "ret" /\ fn[2] = "Eval27" /\ synced[2]
    /\ \A i \in DOMAIN deuce7RootTable : deuce7RootTable[i] \in held[i] \ {0, -1}

---------------------------------------------------------------------------
(* Further properties of the slow path, under SpecEval *)

IsBroadway(h) == RefRankSet(h) = {10, 11, 12, 13, 14}

\* C15: evalSlow27 recognises the Ace-high straight 10-J-Q-K-A: in mixed
\* suits it is a straight (category 4), in one suit a straight flush
\* (category 8), and its tie-break rank is the Ace.
C15_BroadwayIsStraight ==
    (Evaluated /\ IsBroadway(eHand)) =>
        /\ ~eEv.err
        /\ EvCategory(eEv) = IF RefIsFlush(eHand) THEN 8 ELSE 4
        /\ EvTop(eEv) = 14

\* C16: when the five cards are accumulated, dupes[k] is the number of
\* ranks that occur exactly k times in the hand, the masks of the
\* multiplicities are disjoint and the mask of multiplicity k holds one slot
\* for each of those ranks: cards of different ranks never share a slot, and
\* slot 12 counts the Aces only.
C16_CountsMatchRanks ==
    Evaluated =>
        /\ \A k \in 1..5 :
              /\ eAcc.dupes[k] =
                    Cardinality({r \in RefRankSet(eHand) : RefCount(eHand, r) = k})
              /\ Cardinality(eAcc.rankBits[k - 1]) = eAcc.dupes[k]
        /\ \A j \in 0..5 : \A k \in 0..5 :
              j # k => eAcc.rankBits[j] \cap eAcc.rankBits[k] = {}
        /\ Cardinality({r \in 0..12 : eAcc.ranks[r] > 0})
              = Cardinality(RefRankSet(eHand))
        /\ (14 \in RefRankSet(eHand)) => eAcc.ranks[12] = RefCount(eHand, 14)

\* C17: for a hand classified as a straight or a straight flush, str8top and
\* the tie-break rank derived from it are the rank of the highest card of the
\* straight.
C17_StraightTop ==
    (Evaluated /\ ~eEv.err /\ EvCategory(eEv) \in {4, 8}) =>
        /\ eAcc.str8top = Max(RefRankSet(eHand))
        /\ EvTop(eEv) = Max(RefRankSet(eHand))

\* C18: for a hand of five distinct cards exactly one category test holds of
\* the accumulators, so evalSlow27 returns no error and Eval27 does not
\* return 0.
C18_OneTestMatches ==
    Evaluated =>
        /\ Cardinality(MatchingTests(eAcc, eHand)) = 1
        /\ ~eEv.err
        /\ eScore # 0

===========================================================================
